---- MODULE Spec2Model ----
(***************************************************************************)
(* Notification service: the Notification state machine (update_status,    *)
(* can_retry), NotificationService.send_notification under the tenacity    *)
(* RETRY_POLICY, EmailService.send_email under backoff.on_exception, the   *)
(* per-type rate limit check, the priority queue loop                      *)
(* process_queued_notifications, the request handler create_notification   *)
(* and the shutdown of the service.                                        *)
(*                                                                         *)
(* Everything runs on one asyncio event loop: a coroutine runs until it    *)
(* suspends (asyncio.sleep, the tenacity wait), so the steps of one run of *)
(* the queue loop are not interleaved with other coroutines; only the      *)
(* clock moves.                                                            *)
(***************************************************************************)
EXTENDS Integers, Sequences, FiniteSets, TLC

VARIABLES
    notif,       \* the Notification objects, by slot
    queues,      \* NotificationService._priority_queues
    rate,        \* NotificationService._rate_limiters: the counters' values
    now,         \* datetime.utcnow()
    loop,        \* where the process_queued_notifications task stands
    inv,         \* the caller's coroutine on each notification: a direct
                 \* send_notification call, a put, the request handler or
                 \* its background task
    last,        \* the last call made and what its caller saw
    deliveries,  \* per notification, the attempts handed to a channel
    calls        \* the number of the callers' operations so far

vars == <<notif, queues, rate, now, loop, inv, last, deliveries, calls>>

-----------------------------------------------------------------------------
(* Bounds of the model *)

\* notifications constructed in one run
MaxNotifs == 2
\* operations of the callers in one run: direct puts into the priority
\* queues, direct calls of send_notification and of update_status
MaxCalls == 3
\* the clock is sampled at MaxTicks + 1 instants
MaxTicks == 3
\* the life of one notification: the update_status calls on it
MaxLifeCalls == 5
\* the life of one notification: the clock is sampled around the backoff
\* delays of retry counts 0..MaxDoublings
MaxDoublings == 3

-----------------------------------------------------------------------------
(* Program constants *)

\* config.py DEFAULT_RETRY_ATTEMPTS, DEFAULT_RETRY_DELAY (seconds)
NOTIFICATION_RETRY_ATTEMPTS == 3
NOTIFICATION_RETRY_DELAY == 300
\* email_service.py MAX_RETRIES (backoff max_tries)
MAX_RETRIES == 3
\* notification_service.py RETRY_POLICY
STOP_AFTER_ATTEMPT == 3
WAIT_MULTIPLIER == 1
WAIT_MIN == 4
WAIT_MAX == 10
\* process_queued_notifications: asyncio.sleep(1), asyncio.sleep(5)
LOOP_SLEEP == 1
LOOP_ERROR_SLEEP == 5
\* _check_rate_limit max_rates
MAX_RATE_EMAIL == 100
MAX_RATE_IN_APP == 1000
MAX_RATE_SYSTEM == 500
\* asyncio.Queue(maxsize=...)
MAXSIZE_URGENT == 1000
MAXSIZE_HIGH == 2000
MAXSIZE_MEDIUM == 5000
MAXSIZE_LOW == 10000

-----------------------------------------------------------------------------
(* Enumerations *)

NotificationType == {"email", "in_app", "system"}

NotificationStatus == {"pending", "sent", "failed", "cancelled"}

\* the members of the Enum in definition order, which is the order
\* `for priority in NotificationPriority` visits them
NotificationPriority == <<"low", "medium", "high", "urgent">>

Priorities == {NotificationPriority[i] : i \in 1..Len(NotificationPriority)}

NIDs == 1..MaxNotifs

\* the (notification_type, priority) pairs of the notifications constructed:
\* the two of the tests, and one more for each other type and priority
Kinds ==
    {<<"email", "high">>, <<"email", "low">>,
     <<"in_app", "urgent">>, <<"system", "medium">>}

\* error_message = None
NoMsg == "none"

\* scheduled_for = None
NoSchedule == -1

Max2(a, b) == IF a >= b THEN a ELSE b
Min2(a, b) == IF a <= b THEN a ELSE b

RECURSIVE Pow2(_)
Pow2(n) == IF n = 0 THEN 1 ELSE 2 * Pow2(n - 1)

RECURSIVE MaxTimestamp(_)
MaxTimestamp(errs) ==
    IF Len(errs) = 1 THEN errs[1].timestamp
    ELSE Max2(errs[1].timestamp, MaxTimestamp(Tail(errs)))

-----------------------------------------------------------------------------
(* Notification model *)

\* a slot whose Notification has not been constructed yet
NoNotification ==
    [created |-> FALSE, notification_type |-> "email", priority |-> "low",
     status |-> "pending", created_at |-> 0, updated_at |-> 0,
     retry_count |-> 0, error_messages |-> <<>>, status_history |-> <<>>,
     scheduled_for |-> NoSchedule]

\* Notification(...) with the auto-generated fields
NewNotification(ntype, prio, t) ==
    [created |-> TRUE, notification_type |-> ntype, priority |-> prio,
     status |-> "pending", created_at |-> t, updated_at |-> t,
     retry_count |-> 0, error_messages |-> <<>>, status_history |-> <<>>,
     scheduled_for |-> NoSchedule]

\* mutant: __post_init__ accepts any scheduled time
post_init_valid_any(scheduled_for, t) == TRUE

\* __post_init__, "Validate scheduled time": FALSE is the ValueError
post_init_valid(scheduled_for, t) ==
    ~(scheduled_for # NoSchedule /\ scheduled_for < t)

\* Notification(..., scheduled_for=...) that passed __post_init__
NewScheduled(ntype, prio, t, scheduled_for) ==
    [NewNotification(ntype, prio, t) EXCEPT !.scheduled_for = scheduled_for]

\* Notification(..., metadata=...) whose metadata carries a status_history
NewWithMetadata(ntype, prio, t, history) ==
    [NewNotification(ntype, prio, t) EXCEPT !.status_history = history]

\* mutant: a status may be set again to itself
valid_transitions_reflexive(status) ==
    CASE status = "pending" -> {"sent", "failed", "cancelled", "pending"}
      [] status = "failed" -> {"pending", "cancelled", "failed"}
      [] status = "sent" -> {"failed", "sent"}
      [] status = "cancelled" -> {"cancelled"}

\* mutant: a cancelled notification may still be marked failed
valid_transitions_cancelled_fails(status) ==
    CASE status = "pending" -> {"sent", "failed", "cancelled"}
      [] status = "failed" -> {"pending", "cancelled"}
      [] status = "sent" -> {"failed"}
      [] status = "cancelled" -> {"failed"}

valid_transitions(status) ==
    CASE status = "pending" -> {"sent", "failed", "cancelled"}
      [] status = "failed" -> {"pending", "cancelled"}
      [] status = "sent" -> {"failed"}
      [] status = "cancelled" -> {}

\* mutant: an error message is recorded whatever the new status
set_status_any_message(n, new_status, error_message, t) ==
    LET n1 == [n EXCEPT !.status = new_status, !.updated_at = t]
        n2 == IF error_message # NoMsg
              THEN [n1 EXCEPT
                      !.error_messages =
                          Append(@, [timestamp |-> t,
                                     message |-> error_message,
                                     retry_count |-> n1.retry_count]),
                      !.retry_count = @ + 1]
              ELSE n1
    IN  [n2 EXCEPT !.status_history = Append(@, new_status)]

\* mutant: retry_count counts every transition to failed
set_status_count_failures(n, new_status, error_message, t) ==
    LET n1 == [n EXCEPT !.status = new_status, !.updated_at = t]
        n2 == IF error_message # NoMsg /\ new_status = "failed"
              THEN [n1 EXCEPT
                      !.error_messages =
                          Append(@, [timestamp |-> t,
                                     message |-> error_message,
                                     retry_count |-> n1.retry_count])]
              ELSE n1
        n3 == IF new_status = "failed" THEN [n2 EXCEPT !.retry_count = @ + 1] ELSE n2
    IN  [n3 EXCEPT !.status_history = Append(@, new_status)]

\* mutant: the error tracking starts afresh when the notification returns to
\* pending
set_status_reset_on_pending(n, new_status, error_message, t) ==
    LET n1 == [n EXCEPT !.status = new_status, !.updated_at = t]
        n2 == IF error_message # NoMsg /\ new_status = "failed"
              THEN [n1 EXCEPT
                      !.error_messages =
                          Append(@, [timestamp |-> t,
                                     message |-> error_message,
                                     retry_count |-> n1.retry_count]),
                      !.retry_count = @ + 1]
              ELSE IF new_status = "pending"
              THEN [n1 EXCEPT !.error_messages = <<>>, !.retry_count = 0]
              ELSE n1
    IN  [n2 EXCEPT !.status_history = Append(@, new_status)]

\* mutant: a notification that fails is escalated to the urgent priority
set_status_escalate(n, new_status, error_message, t) ==
    LET n1 == [n EXCEPT !.status = new_status, !.updated_at = t,
                        !.priority = IF new_status = "failed" THEN "urgent" ELSE @]
        n2 == IF error_message # NoMsg /\ new_status = "failed"
              THEN [n1 EXCEPT
                      !.error_messages =
                          Append(@, [timestamp |-> t,
                                     message |-> error_message,
                                     retry_count |-> n1.retry_count]),
                      !.retry_count = @ + 1]
              ELSE n1
    IN  [n2 EXCEPT !.status_history = Append(@, new_status)]

\* update_status past its validation: status and timestamp, error tracking,
\* the status history of the metadata
set_status(n, new_status, error_message, t) ==
    LET n1 == [n EXCEPT !.status = new_status, !.updated_at = t]
        n2 == IF error_message # NoMsg /\ new_status = "failed"
              THEN [n1 EXCEPT
                      !.error_messages =
                          Append(@, [timestamp |-> t,
                                     message |-> error_message,
                                     retry_count |-> n1.retry_count]),
                      !.retry_count = @ + 1]
              ELSE n1
    IN  [n2 EXCEPT !.status_history = Append(@, new_status)]

\* mutant: the timestamp is refreshed before the transition is validated
update_status_touch_first(n, new_status, error_message, t) ==
    IF new_status \notin valid_transitions(n.status)
    THEN [ok |-> FALSE, n |-> [n EXCEPT !.updated_at = t]]
    ELSE [ok |-> TRUE, n |-> set_status(n, new_status, error_message, t)]

\* mutant: a refused transition is logged in the status history
update_status_log_refused(n, new_status, error_message, t) ==
    IF new_status \notin valid_transitions(n.status)
    THEN [ok |-> FALSE, n |-> [n EXCEPT !.status_history = Append(@, new_status)]]
    ELSE [ok |-> TRUE, n |-> set_status(n, new_status, error_message, t)]

\* Notification.update_status at time t: ok = FALSE is the ValueError
update_status(n, new_status, error_message, t) ==
    IF new_status \notin valid_transitions(n.status)
    THEN [ok |-> FALSE, n |-> n]
    ELSE [ok |-> TRUE, n |-> set_status(n, new_status, error_message, t)]

\* mutant: the delay grows by multiplication, 2 * retry_count
current_delay_linear(retry_count) == NOTIFICATION_RETRY_DELAY * (2 * retry_count)

\* can_retry: current_delay = base_delay * (2 ** self.retry_count)
current_delay(retry_count) == NOTIFICATION_RETRY_DELAY * Pow2(retry_count)

\* can_retry: the latest error timestamp, or created_at without errors
last_attempt(n) ==
    IF n.error_messages # <<>> THEN MaxTimestamp(n.error_messages)
    ELSE n.created_at

\* mutant: the delay must have been exceeded
can_retry_strict(n, t) ==
    IF n.retry_count >= NOTIFICATION_RETRY_ATTEMPTS THEN FALSE
    ELSE IF n.status # "failed" THEN FALSE
    ELSE (t - last_attempt(n)) > current_delay(n.retry_count)

\* mutant: the maximum of retry attempts is not checked
can_retry_unbounded(n, t) ==
    IF n.status # "failed" THEN FALSE
    ELSE (t - last_attempt(n)) >= current_delay(n.retry_count)

\* Notification.can_retry at time t
can_retry(n, t) ==
    IF n.retry_count >= NOTIFICATION_RETRY_ATTEMPTS THEN FALSE
    ELSE IF n.status # "failed" THEN FALSE
    ELSE (t - last_attempt(n)) >= current_delay(n.retry_count)

-----------------------------------------------------------------------------
(* EmailService *)

\* what the SMTP side does on one try of send_email:
\*   "ok"      smtp.send_message returned
\*   "smtp"    connect() or send_message raised smtplib.SMTPException
\*   "conn"    they raised ConnectionError
\*   "invalid" a ValueError before the send (recipients, template rendering)
Outcomes == {"ok", "smtp", "conn", "invalid"}

OutcomeRuns == [1..MAX_RETRIES -> Outcomes]

\* the tries send_email does not reach are written "ok"
Unused(outs, tries) == \A j \in 1..MAX_RETRIES : j > tries => outs[j] = "ok"

\* what leaves an except block of send_email that was entered with exception
\* e, after the handler's update_status call u: e re-raised by `raise`, or the
\* ValueError of update_status
reraise(u, e) == [n |-> u.n, exc |-> IF u.ok THEN e ELSE "ValueError"]

\* _handle_smtp_error: exc is what leaves the except block
handle_smtp_error(n, t) ==
    reraise(update_status(n, "failed", "smtp_error", t), "SMTPException")

\* _handle_error, entered with exception e
handle_error(n, e, t) ==
    reraise(update_status(n, "failed", "send_error", t), e)

\* send_email after smtp.send_message returned: u is its update_status(SENT)
\* call, whose ValueError lands in `except Exception`
send_email_sent(u, t) ==
    IF u.ok THEN [n |-> u.n, exc |-> "none"]
    ELSE handle_error(u.n, "ValueError", t)

\* the body of send_email, once: exc = "none" is `return True`
send_email_body(n, o, t) ==
    CASE o = "invalid" -> handle_error(n, "ValueError", t)
      [] o = "smtp" -> handle_smtp_error(n, t)
      [] o = "conn" -> handle_error(n, "ConnectionError", t)
      [] o = "ok" -> send_email_sent(update_status(n, "sent", NoMsg, t), t)

\* backoff.on_exception(expo, (SMTPException, ConnectionError), max_tries)
backoff_retries(exc, tries) ==
    exc \in {"SMTPException", "ConnectionError"} /\ tries < MAX_RETRIES

RECURSIVE send_email_try(_, _, _, _, _)

\* the backoff wrapper after try i ended as r: the next try, or the result
backoff_next(r, outs, i, sent, t) ==
    IF backoff_retries(r.exc, i)
    THEN send_email_try(r.n, outs, i + 1, sent, t)
    ELSE [n |-> r.n, exc |-> r.exc, tries |-> i, smtp_ok |-> sent]

\* try i of send_email; sent counts the mails the SMTP server accepted
send_email_try(n, outs, i, sent, t) ==
    backoff_next(send_email_body(n, outs[i], t), outs, i,
                 IF outs[i] = "ok" THEN sent + 1 ELSE sent, t)

\* EmailService.send_email under its backoff decorator; send_email is a
\* synchronous function, the tries follow each other inside one step of the
\* event loop and carry the timestamp of the call
send_email(n, outs, t) == send_email_try(n, outs, 1, 0, t)

-----------------------------------------------------------------------------
(* NotificationService *)

max_rates(ntype) ==
    CASE ntype = "email" -> MAX_RATE_EMAIL
      [] ntype = "in_app" -> MAX_RATE_IN_APP
      [] ntype = "system" -> MAX_RATE_SYSTEM

maxsize(prio) ==
    CASE prio = "urgent" -> MAXSIZE_URGENT
      [] prio = "high" -> MAXSIZE_HIGH
      [] prio = "medium" -> MAXSIZE_MEDIUM
      [] prio = "low" -> MAXSIZE_LOW

\* mutant: one limit shared by all channels
check_rate_limit_shared(ntype, rates) ==
    \A c \in NotificationType : rates[c] < max_rates(c)

\* _check_rate_limit: reads the counter, never increments it
check_rate_limit(ntype, rates) == rates[ntype] < max_rates(ntype)

\* mutant: the ValueError that update_status raises in send_email after the
\* SMTP server accepted the mail is not turned into False
email_result_accepted(r) ==
    [n |-> r.n,
     success |-> (r.exc = "none" \/ (r.exc = "ValueError" /\ r.smtp_ok > 0)),
     tries |-> r.tries, smtp_ok |-> r.smtp_ok]

\* `return send_email(...)`, or `return False` on any exception
email_result(r) ==
    [n |-> r.n, success |-> (r.exc = "none"), tries |-> r.tries,
     smtp_ok |-> r.smtp_ok]

\* _process_email_notification: any exception of send_email becomes False
process_email_notification(n, outs, t) == email_result(send_email(n, outs, t))

\* _process_in_app_notification, _process_system_notification: placeholders
process_in_app_notification(n) ==
    [n |-> n, success |-> TRUE, tries |-> 0, smtp_ok |-> 0]

process_system_notification(n) ==
    [n |-> n, success |-> TRUE, tries |-> 0, smtp_ok |-> 0]

\* send_notification: "Process based on notification type"
process_by_type(n, outs, t) ==
    CASE n.notification_type = "email" -> process_email_notification(n, outs, t)
      [] n.notification_type = "in_app" -> process_in_app_notification(n)
      [] n.notification_type = "system" -> process_system_notification(n)

\* send_notification after its update_status call u on the delivery d:
\* `return success`, or the except block, which records the failure (when that
\* is a valid transition) and re-raises
send_notification_end(d, u, t) ==
    [n |-> IF u.ok THEN u.n ELSE update_status(d.n, "failed", "exception", t).n,
     ret |-> IF ~u.ok THEN "raise" ELSE IF d.success THEN "true" ELSE "false",
     admitted |-> TRUE, requeue |-> FALSE,
     success |-> d.success, tries |-> d.tries, smtp_ok |-> d.smtp_ok]

\* send_notification from the delivery d on: "Update notification status"
send_notification_status(d, t) ==
    send_notification_end(
        d, update_status(d.n, IF d.success THEN "sent" ELSE "failed", NoMsg, t), t)

\* one attempt of the body of send_notification.
\* ret: "true" / "false" returned, "raise" an exception left the function
send_notification(n, outs, t, rates) ==
    IF ~check_rate_limit(n.notification_type, rates)
    THEN [n |-> n, ret |-> "false", admitted |-> FALSE, requeue |-> TRUE,
          success |-> FALSE, tries |-> 0, smtp_ok |-> 0]
    ELSE send_notification_status(process_by_type(n, outs, t), t)

\* RETRY_POLICY wait_exponential(multiplier, min, max) after attempt k
tenacity_wait(k) == Max2(WAIT_MIN, Min2(WAIT_MULTIPLIER * Pow2(k - 1), WAIT_MAX))

\* mutant: the retry policy never gives up
tenacity_stop_never(k) == FALSE

\* RETRY_POLICY stop_after_attempt
tenacity_stop(k) == k >= STOP_AFTER_ATTEMPT

-----------------------------------------------------------------------------
(* State *)

\* the instants at which the clock (datetime.utcnow) is sampled
\* 0, WAIT_MIN, NOTIFICATION_RETRY_DELAY, NOTIFICATION_RETRY_DELAY + WAIT_MIN,
\* 2 * NOTIFICATION_RETRY_DELAY, ...
ClockValues ==
    {(i \div 2) * NOTIFICATION_RETRY_DELAY + (i % 2) * WAIT_MIN : i \in 0..MaxTicks}

Idle == [pc |-> "idle", attempt |-> 0, wake |-> 0]

LoopSleeping(t) == [pc |-> "sleep", idx |-> 1, cur |-> 0, attempt |-> 0, wake |-> t]

LoopWaiting(i, n, k, t) == [pc |-> "wait", idx |-> i, cur |-> n, attempt |-> k, wake |-> t]

LoopRunning(i) == [pc |-> "run", idx |-> i, cur |-> 0, attempt |-> 0, wake |-> 0]

\* a call: the operation, its notification, the status asked for (for a
\* request, the status reported), whether the rate limit check admitted it,
\* what the channel returned, the mails the SMTP server accepted, the
\* scheduled_for of a request, what the caller saw
NoCall == [op |-> "none", nid |-> 0, arg |-> "none", admitted |-> FALSE,
           success |-> FALSE, smtp_ok |-> 0, scheduled_for |-> NoSchedule,
           ret |-> "none"]

\* the event loop is not inside a run of process_queued_notifications
Free == loop.pc # "run"

Created == {n \in NIDs : notif[n].created}

\* the outcome runs that matter for notification n
RunsFor(n) ==
    IF n.notification_type = "email"
    THEN {outs \in OutcomeRuns : Unused(outs, send_email(n, outs, 0).tries)}
    ELSE {[j \in 1..MAX_RETRIES |-> "ok"]}

Init ==
    /\ notif = [n \in NIDs |-> NoNotification]
    /\ queues = [p \in Priorities |-> <<>>]
    /\ rate = [c \in NotificationType |-> 0]
    /\ now = 0
    /\ loop = LoopSleeping(0)
    /\ inv = [n \in NIDs |-> Idle]
    /\ last = NoCall
    /\ deliveries = [n \in NIDs |-> 0]
    /\ calls = 0

\* datetime.utcnow() moves on
Tick ==
    /\ \E t \in ClockValues : t > now /\ now' = t
    /\ UNCHANGED <<notif, queues, rate, loop, inv, last, deliveries, calls>>

\* Notification(...): the constructor, as create_notification calls it
Create(ntype, prio) ==
    /\ Free
    /\ Created # NIDs
    /\ LET n == Cardinality(Created) + 1
       IN  /\ notif' = [notif EXCEPT ![n] = NewNotification(ntype, prio, now)]
           /\ last' = [NoCall EXCEPT !.op = "create", !.nid = n]
    /\ UNCHANGED <<queues, rate, now, loop, inv, deliveries, calls>>

\* notification.update_status(new_status, error_message) on notification n
Update(n, new_status, error_message) ==
    /\ Free
    /\ n \in Created
    /\ LET u == update_status(notif[n], new_status, error_message, now)
       IN  /\ notif' = [notif EXCEPT ![n] = u.n]
           /\ last' = [NoCall EXCEPT !.op = "update_status", !.nid = n,
                                      !.arg = new_status,
                                      !.ret = IF u.ok THEN "none" ELSE "ValueError"]
    /\ UNCHANGED <<queues, rate, now, loop, inv, deliveries>>

\* a caller's notification.update_status(new_status, error_message)
UpdateStatus(n, new_status, error_message) ==
    /\ calls < MaxCalls
    /\ Update(n, new_status, error_message)
    /\ calls' = calls + 1

\* await self._priority_queues[priority].put(notification) while the queue
\* has a free slot: put does not suspend
Put(n) ==
    /\ Free
    /\ n \in Created
    /\ Len(queues[notif[n].priority]) < maxsize(notif[n].priority)
    /\ queues' = [queues EXCEPT ![notif[n].priority] = Append(@, n)]
    /\ last' = [NoCall EXCEPT !.op = "put", !.nid = n]
    /\ UNCHANGED <<notif, rate, now, loop, inv, deliveries>>

\* a caller's put
Enqueue(n) ==
    /\ calls < MaxCalls
    /\ Put(n)
    /\ calls' = calls + 1

\* the coroutine of a caller suspended inside Queue.put
Putting == [pc |-> "put", attempt |-> 0, wake |-> 0]

\* await self._priority_queues[priority].put(notification) while the queue
\* holds maxsize items: asyncio.Queue.put waits for a free slot, the caller
\* is suspended
PutFull(n) ==
    /\ Free
    /\ n \in Created
    /\ inv[n].pc = "idle"
    /\ Len(queues[notif[n].priority]) = maxsize(notif[n].priority)
    /\ inv' = [inv EXCEPT ![n] = Putting]
    /\ last' = [NoCall EXCEPT !.op = "put", !.nid = n, !.ret = "suspended"]
    /\ UNCHANGED <<notif, queues, rate, now, loop, deliveries, calls>>

\* a get() has freed a slot: the suspended put resumes and puts its item
PutResume(n) ==
    /\ Free
    /\ inv[n].pc = "put"
    /\ Len(queues[notif[n].priority]) < maxsize(notif[n].priority)
    /\ queues' = [queues EXCEPT ![notif[n].priority] = Append(@, n)]
    /\ inv' = [inv EXCEPT ![n] = Idle]
    /\ last' = [NoCall EXCEPT !.op = "put", !.nid = n, !.ret = "resumed"]
    /\ UNCHANGED <<notif, rate, now, loop, deliveries, calls>>

\* the queues after one attempt r of send_notification(notif[n], priority)
Requeued(n, priority, r, q) ==
    IF r.requeue THEN [q EXCEPT ![priority] = Append(@, n)] ELSE q

\* the effects of one attempt r of send_notification on notification n
Attempt(n, r) ==
    /\ notif' = [notif EXCEPT ![n] = r.n]
    /\ rate' = rate
    /\ deliveries' = IF r.admitted THEN [deliveries EXCEPT ![n] = @ + 1] ELSE deliveries

\* what the caller of the decorated send_notification sees after attempt k
Seen(r, k) == IF r.ret = "raise" /\ tenacity_stop(k) THEN "RetryError" ELSE r.ret

Call(n, r, k) ==
    [op |-> "send_notification", nid |-> n, arg |-> "none",
     admitted |-> r.admitted, success |-> r.success, smtp_ok |-> r.smtp_ok,
     scheduled_for |-> NoSchedule, ret |-> Seen(r, k)]

\* attempt k of a direct call ended as r: the call returns, or tenacity
\* suspends it for the wait
DirectAttempt(n, k, r) ==
    /\ Attempt(n, r)
    /\ queues' = Requeued(n, notif[n].priority, r, queues)
    /\ inv' = [inv EXCEPT ![n] =
                 IF r.ret = "raise" /\ ~tenacity_stop(k)
                 THEN [pc |-> "wait", attempt |-> k, wake |-> now + tenacity_wait(k)]
                 ELSE Idle]
    /\ last' = Call(n, r, k)

\* await notification_service.send_notification(notification, notification.priority)
\* up to the first suspension
Send(n) ==
    /\ Free
    /\ n \in Created
    /\ inv[n].pc = "idle"
    /\ \E outs \in RunsFor(notif[n]) :
         DirectAttempt(n, 1, send_notification(notif[n], outs, now, rate))
    /\ UNCHANGED <<now, loop>>

\* a caller's direct call
SendDirect(n) ==
    /\ calls < MaxCalls
    /\ Send(n)
    /\ calls' = calls + 1

\* the tenacity wait is over: the next attempt of a direct call
DirectRetry(n) ==
    /\ Free
    /\ inv[n].pc = "wait"
    /\ now >= inv[n].wake
    /\ \E outs \in RunsFor(notif[n]) :
         DirectAttempt(n, inv[n].attempt + 1,
                       send_notification(notif[n], outs, now, rate))
    /\ UNCHANGED <<now, loop, calls>>

-----------------------------------------------------------------------------
(* create_notification: the request handler of the controller *)

\* the scheduled_for values of the requests: none, or the third instant of
\* the clock, which is in the future, now or in the past when the request comes
Schedules == {NoSchedule, NOTIFICATION_RETRY_DELAY}

\* the handler suspended in `await notification_service.send_notification`
Awaiting(k, t) == [pc |-> "await", attempt |-> k, wake |-> t]

\* background_tasks.add_task(notification_service.send_notification, ...):
\* the task runs once the response has been sent
TaskAdded == [pc |-> "task", attempt |-> 0, wake |-> 0]

\* the response of create_notification after send_notification ended as
\* seen: `status = SENT if success else FAILED` and status_code 200, or the
\* HTTPException 500 of `except Exception`
Response(n, r, seen, scheduled_for) ==
    [op |-> "create_notification", nid |-> n,
     arg |-> CASE seen = "true" -> "sent"
               [] seen = "false" -> "failed"
               [] OTHER -> "none",
     admitted |-> r.admitted, success |-> r.success, smtp_ok |-> r.smtp_ok,
     scheduled_for |-> scheduled_for,
     ret |-> CASE seen \in {"true", "false"} -> "200"
               [] seen = "RetryError" -> "500"
               [] OTHER -> "suspended"]

\* attempt k of the handler's send_notification call ended as r: the handler
\* responds, or tenacity suspends the call for the wait
HandlerAttempt(n, k, r, scheduled_for) ==
    /\ Attempt(n, r)
    /\ queues' = Requeued(n, r.n.priority, r, queues)
    /\ inv' = [inv EXCEPT ![n] =
                 IF r.ret = "raise" /\ ~tenacity_stop(k)
                 THEN Awaiting(k, now + tenacity_wait(k))
                 ELSE Idle]
    /\ last' = Response(n, r, Seen(r, k), scheduled_for)

\* Notification(...) raises the ValueError of __post_init__: HTTPException 400
SubmitRejected(scheduled_for) ==
    /\ ~post_init_valid(scheduled_for, now)
    /\ last' = [NoCall EXCEPT !.op = "create_notification",
                               !.scheduled_for = scheduled_for, !.ret = "400"]
    /\ UNCHANGED <<notif, queues, rate, inv, deliveries>>

\* scheduled_for is in the future: the send is added as a background task
\* and the response is 202 with status pending
SubmitDeferred(ntype, prio, scheduled_for) ==
    /\ post_init_valid(scheduled_for, now)
    /\ scheduled_for # NoSchedule
    /\ scheduled_for > now
    /\ Created # NIDs
    /\ LET n == Cardinality(Created) + 1
       IN  /\ notif' = [notif EXCEPT ![n] =
                          NewScheduled(ntype, prio, now, scheduled_for)]
           /\ inv' = [inv EXCEPT ![n] = TaskAdded]
           /\ last' = [NoCall EXCEPT !.op = "create_notification", !.nid = n,
                                      !.arg = "pending",
                                      !.scheduled_for = scheduled_for,
                                      !.ret = "202"]
    /\ UNCHANGED <<queues, rate, deliveries>>

\* "Process immediately": the handler awaits send_notification
SubmitNow(ntype, prio, scheduled_for) ==
    /\ post_init_valid(scheduled_for, now)
    /\ ~(scheduled_for # NoSchedule /\ scheduled_for > now)
    /\ Created # NIDs
    /\ \E outs \in RunsFor(NewScheduled(ntype, prio, now, scheduled_for)) :
         \E r \in {send_notification(NewScheduled(ntype, prio, now, scheduled_for),
                                     outs, now, rate)} :
           HandlerAttempt(Cardinality(Created) + 1, 1, r, scheduled_for)

\* a request POST /api/v1/notifications, up to the response or to the first
\* suspension of the handler
Submit(ntype, prio, scheduled_for) ==
    /\ Free
    /\ calls < MaxCalls
    /\ calls' = calls + 1
    /\ \/ SubmitRejected(scheduled_for)
       \/ SubmitDeferred(ntype, prio, scheduled_for)
       \/ SubmitNow(ntype, prio, scheduled_for)
    /\ UNCHANGED <<now, loop>>

\* the tenacity wait is over: the next attempt of the handler's call
SubmitRetry(n) ==
    /\ Free
    /\ inv[n].pc = "await"
    /\ now >= inv[n].wake
    /\ \E outs \in RunsFor(notif[n]) :
         \E r \in {send_notification(notif[n], outs, now, rate)} :
           HandlerAttempt(n, inv[n].attempt + 1, r, notif[n].scheduled_for)
    /\ UNCHANGED <<now, loop, calls>>

\* the background task starts: send_notification(notification, priority)
TaskStart(n) ==
    /\ Free
    /\ inv[n].pc = "task"
    /\ \E outs \in RunsFor(notif[n]) :
         \E r \in {send_notification(notif[n], outs, now, rate)} :
           DirectAttempt(n, 1, r)
    /\ UNCHANGED <<now, loop, calls>>

-----------------------------------------------------------------------------
(* Shutdown *)

\* NotificationService.cleanup: closes the message queue connection; the
\* notifications, the priority queues and the loop task are not touched
Cleanup ==
    /\ Free
    /\ last' = [NoCall EXCEPT !.op = "cleanup"]
    /\ UNCHANGED <<notif, queues, rate, now, loop, inv, deliveries, calls>>

\* app.py shutdown_handler: notification_service.cleanup_resources() is not a
\* method of NotificationService, the AttributeError is logged and re-raised
ShutdownHandler ==
    /\ Free
    /\ last' = [NoCall EXCEPT !.op = "shutdown", !.ret = "AttributeError"]
    /\ UNCHANGED <<notif, queues, rate, now, loop, inv, deliveries, calls>>

-----------------------------------------------------------------------------
(* process_queued_notifications *)

\* the positions of the for loop, from i on, whose queue is not empty
Waiting(i, q) ==
    {j \in i..Len(NotificationPriority) : q[NotificationPriority[j]] # <<>>}

SetMin(S) == CHOOSE x \in S : \A y \in S : x <= y

\* the for loop at position i with queues q, run on until it has a notification
\* to get or, all queues from i on being empty, reaches asyncio.sleep(1)
Scan(i, q, t) ==
    IF Waiting(i, q) = {} THEN LoopSleeping(t + LOOP_SLEEP)
    ELSE LoopRunning(SetMin(Waiting(i, q)))

\* the task resumes after asyncio.sleep: `while True` starts the for loop
LoopWake ==
    /\ loop.pc = "sleep"
    /\ now >= loop.wake
    /\ loop' = Scan(1, queues, now)
    /\ loop' # loop
    /\ UNCHANGED <<notif, queues, rate, now, inv, last, deliveries, calls>>

\* mutant: the RetryError is not caught and ends the task
LoopAttempt_uncaught(n, k, r, q) ==
    /\ Attempt(n, r)
    /\ queues' = Requeued(n, NotificationPriority[loop.idx], r, q)
    /\ loop' = IF r.ret # "raise" THEN Scan(loop.idx, queues', now)
               ELSE IF tenacity_stop(k) THEN [LoopSleeping(0) EXCEPT !.pc = "ended"]
               ELSE LoopWaiting(loop.idx, n, k, now + tenacity_wait(k))
    /\ last' = Call(n, r, k)

\* attempt k of `await self.send_notification(notification, priority)` on
\* the notification n taken from the queue at the loop's position ended as r,
\* the queues being q before it: the loop goes on with the queue, or tenacity
\* suspends the call for the wait, or the RetryError is caught by the loop,
\* which sleeps and starts over
LoopAttempt(n, k, r, q) ==
    /\ Attempt(n, r)
    /\ queues' = Requeued(n, NotificationPriority[loop.idx], r, q)
    /\ loop' = IF r.ret # "raise" THEN Scan(loop.idx, queues', now)
               ELSE IF tenacity_stop(k) THEN LoopSleeping(now + LOOP_ERROR_SLEEP)
               ELSE LoopWaiting(loop.idx, n, k, now + tenacity_wait(k))
    /\ last' = Call(n, r, k)

\* mutant: the loop takes the notification that was put last
QueueHead_newest(i) ==
    queues[NotificationPriority[i]][Len(queues[NotificationPriority[i]])]

\* the notification at the head of the queue at position i
QueueHead(i) == Head(queues[NotificationPriority[i]])

\* queue.get() and the first attempt r of send_notification(notification, priority)
LoopDequeue ==
    /\ loop.pc = "run"
    /\ \E outs \in RunsFor(notif[QueueHead(loop.idx)]) :
         \E r \in {send_notification(notif[QueueHead(loop.idx)], outs, now, rate)} :
         LoopAttempt(QueueHead(loop.idx), 1, r,
                     [queues EXCEPT ![NotificationPriority[loop.idx]] = Tail(@)])
    /\ UNCHANGED <<now, inv, calls>>

\* the tenacity wait is over: the next attempt for the dequeued notification
LoopRetry ==
    /\ loop.pc = "wait"
    /\ now >= loop.wake
    /\ \E outs \in RunsFor(notif[loop.cur]) :
         \E r \in {send_notification(notif[loop.cur], outs, now, rate)} :
         LoopAttempt(loop.cur, loop.attempt + 1, r, queues)
    /\ UNCHANGED <<now, inv, calls>>

\* the Notification model under its callers
NextModel ==
    \/ Tick
    \/ \E k \in Kinds : Create(k[1], k[2])
    \/ \E n \in NIDs, s \in NotificationStatus, m \in {NoMsg, "caller"} :
         UpdateStatus(n, s, m)

\* direct calls of send_notification
NextSend ==
    \/ Tick
    \/ \E k \in Kinds : Create(k[1], k[2])
    \/ \E n \in NIDs : SendDirect(n)
    \/ \E n \in NIDs : DirectRetry(n)

\* the queue loop
NextQueue ==
    \/ Tick
    \/ \E k \in Kinds : Create(k[1], k[2])
    \/ \E n \in NIDs : Enqueue(n)
    \/ LoopWake
    \/ LoopDequeue
    \/ LoopRetry

Next ==
    \/ Tick
    \/ \E k \in Kinds : Create(k[1], k[2])
    \/ \E n \in NIDs, s \in NotificationStatus, m \in {NoMsg, "caller"} :
         UpdateStatus(n, s, m)
    \/ \E n \in NIDs : Enqueue(n)
    \/ \E n \in NIDs : SendDirect(n)
    \/ \E n \in NIDs : DirectRetry(n)
    \/ LoopWake
    \/ LoopDequeue
    \/ LoopRetry

Spec == Init /\ [][Next]_vars

SpecModel == Init /\ [][NextModel]_vars

SpecSend == Init /\ [][NextSend]_vars

SpecQueue == Init /\ [][NextQueue]_vars

-----------------------------------------------------------------------------
(* The life of one notification: update_status and can_retry on the first
   notification, with the clock sampled just before and at each backoff delay *)

BackoffClock ==
    {0} \cup {current_delay(k) - d : k \in 0..MaxDoublings, d \in {0, 1}}

LifeTick ==
    /\ \E t \in BackoffClock : t > now /\ now' = t
    /\ UNCHANGED <<notif, queues, rate, loop, inv, last, deliveries, calls>>

\* the first notification
CreateFirst(ntype, prio) ==
    /\ Created = {}
    /\ Create(ntype, prio)

LifeUpdate(new_status, error_message) ==
    /\ calls < MaxLifeCalls
    /\ Update(1, new_status, error_message)
    /\ calls' = calls + 1

\* a caller's notification.can_retry()
CanRetry(n) ==
    /\ Free
    /\ n \in Created
    /\ last' = [NoCall EXCEPT !.op = "can_retry", !.nid = n,
                               !.ret = IF can_retry(notif[n], now)
                                       THEN "true" ELSE "false"]
    /\ UNCHANGED <<notif, queues, rate, now, loop, inv, deliveries, calls>>

NextLife ==
    \/ LifeTick
    \/ \E k \in Kinds : CreateFirst(k[1], k[2])
    \/ \E s \in NotificationStatus, m \in {NoMsg, "caller"} : LifeUpdate(s, m)
    \/ CanRetry(1)

SpecLife == Init /\ [][NextLife]_vars

\* every operation, on one notification
NextOne ==
    \/ Tick
    \/ \E k \in Kinds : CreateFirst(k[1], k[2])
    \/ \E s \in NotificationStatus, m \in {NoMsg, "caller"} : UpdateStatus(1, s, m)
    \/ Enqueue(1)
    \/ SendDirect(1)
    \/ DirectRetry(1)
    \/ LoopWake
    \/ LoopDequeue
    \/ LoopRetry

SpecOne == Init /\ [][NextOne]_vars

\* a step of the process_queued_notifications task
LoopStep == LoopWake \/ LoopDequeue \/ LoopRetry

\* the queue loop on one notification, over the backoff delays. The loop is a
\* task of the event loop that runs for ever, and time passes: a step of the
\* task that stays enabled is taken
NextRequeue ==
    \/ LifeTick
    \/ \E k \in Kinds : CreateFirst(k[1], k[2])
    \/ Enqueue(1)
    \/ LoopWake
    \/ LoopDequeue
    \/ LoopRetry

SpecRequeue ==
    /\ Init
    /\ [][NextRequeue]_vars
    /\ WF_vars(LifeTick)
    /\ WF_vars(LoopStep)

\* a put of the first notification, by a caller that is not suspended
FillPut ==
    /\ inv[1].pc = "idle"
    /\ Put(1)
    /\ UNCHANGED calls

\* one notification put again and again into the queue of its priority, up
\* to the capacity of the queue, and the queue loop; the notification is an
\* urgent one, whose queue is the smallest
NextFill ==
    \/ Tick
    \/ CreateFirst("in_app", "urgent")
    \/ FillPut
    \/ PutFull(1)
    \/ PutResume(1)
    \/ LoopWake
    \/ LoopDequeue
    \/ LoopRetry

SpecFill == Init /\ [][NextFill]_vars

\* the requests to the controller
NextSubmit ==
    \/ Tick
    \/ \E k \in Kinds, s \in Schedules : Submit(k[1], k[2], s)
    \/ \E n \in NIDs : SubmitRetry(n)
    \/ \E n \in NIDs : TaskStart(n)
    \/ \E n \in NIDs : DirectRetry(n)

SpecSubmit == Init /\ [][NextSubmit]_vars

\* the queue loop on one notification, and the shutdown of the service
NextShutdown ==
    \/ Tick
    \/ \E k \in Kinds : CreateFirst(k[1], k[2])
    \/ Enqueue(1)
    \/ LoopWake
    \/ LoopDequeue
    \/ LoopRetry
    \/ Cleanup
    \/ ShutdownHandler

SpecShutdown == Init /\ [][NextShutdown]_vars

\* the clock seen by the loop task: it moves on by the length of the loop's
\* longest sleep, and only while the task is suspended until a later instant;
\* every queue entry costs the loop at most STOP_AFTER_ATTEMPT such steps,
\* and there are at most MaxCalls entries
StallHorizon == (STOP_AFTER_ATTEMPT * MaxCalls + 1) * LOOP_ERROR_SLEEP

StallTick ==
    /\ loop.pc \in {"sleep", "wait"}
    /\ now < loop.wake
    /\ now < StallHorizon
    /\ now' = now + LOOP_ERROR_SLEEP
    /\ UNCHANGED <<notif, queues, rate, loop, inv, last, deliveries, calls>>

\* a low Email notification, then a notification of another priority
CreateTwo(ntype, prio) ==
    /\ IF Created = {} THEN ntype = "email" /\ prio = "low" ELSE prio # "low"
    /\ Create(ntype, prio)

\* the first notification fails, by a caller's update_status
FailFirst == UpdateStatus(1, "failed", "caller")

\* the queue loop with a failed notification and another one, both queued in
\* the first instant; the loop task is scheduled whenever it can run
NextStall ==
    \/ StallTick
    \/ now = 0 /\ \E k \in Kinds : CreateTwo(k[1], k[2])
    \/ now = 0 /\ FailFirst
    \/ now = 0 /\ \E n \in NIDs : Enqueue(n)
    \/ LoopWake
    \/ LoopDequeue
    \/ LoopRetry

SpecStall ==
    /\ Init
    /\ [][NextStall]_vars
    /\ WF_vars(StallTick)
    /\ WF_vars(LoopStep)

\* _check_rate_limit against counters of any value: each counter is 0 or at
\* the threshold of one of the channels
RateValues == {0} \cup {max_rates(c) : c \in NotificationType}

InitRate ==
    /\ notif = [n \in NIDs |-> NoNotification]
    /\ queues = [p \in Priorities |-> <<>>]
    /\ rate \in [NotificationType -> RateValues]
    /\ now = 0
    /\ loop = LoopSleeping(0)
    /\ inv = [n \in NIDs |-> Idle]
    /\ last = NoCall
    /\ deliveries = [n \in NIDs |-> 0]
    /\ calls = 0

NextRate ==
    \/ Tick
    \/ \E k \in Kinds : CreateFirst(k[1], k[2])
    \/ SendDirect(1)
    \/ DirectRetry(1)

SpecRate == InitRate /\ [][NextRate]_vars

\* the status_history key of the metadata a request carries: absent, or a
\* list of one entry
MetadataHistories == {<<>>, <<"sent">>}

\* the constructor, called with the request's metadata
CreateWithMetadata(ntype, prio, history) ==
    /\ Free
    /\ Created = {}
    /\ notif' = [notif EXCEPT ![1] = NewWithMetadata(ntype, prio, now, history)]
    /\ last' = [NoCall EXCEPT !.op = "create", !.nid = 1]
    /\ UNCHANGED <<queues, rate, now, loop, inv, deliveries, calls>>

\* one notification built from a request's metadata, under update_status and
\* send_notification
NextMeta ==
    \/ Tick
    \/ \E k \in Kinds, h \in MetadataHistories : CreateWithMetadata(k[1], k[2], h)
    \/ \E s \in NotificationStatus, m \in {NoMsg, "caller"} : UpdateStatus(1, s, m)
    \/ SendDirect(1)
    \/ DirectRetry(1)

SpecMeta == Init /\ [][NextMeta]_vars

-----------------------------------------------------------------------------
(* Claims: the Notification state machine *)

\* the transition table as the specification states it
TransitionTable ==
    {<<"pending", "sent">>, <<"pending", "failed">>, <<"pending", "cancelled">>,
     <<"failed", "pending">>, <<"failed", "cancelled">>,
     <<"sent", "failed">>}

\* this step is a caller's update_status call on notification n
IsUpdateCall(n) ==
    /\ calls' = calls + 1
    /\ last'.op = "update_status"
    /\ last'.nid = n

\* C1: update_status(requested) succeeds iff (current, requested) is in the
\* transition table; on success the status is the requested one and updated_at
\* is the current time.
C1_UpdateStatusFollowsTable ==
    [][\A n \in NIDs :
         IsUpdateCall(n) =>
           LET allowed == <<notif[n].status, last'.arg>> \in TransitionTable
           IN  /\ (last'.ret = "none") <=> allowed
               /\ allowed => /\ notif'[n].status = last'.arg
                             /\ notif'[n].updated_at = now]_vars

\* a failed notification has been put back to pending at a later time than
\* its construction
C1_Witness ==
    /\ last.op = "update_status"
    /\ last.ret = "none"
    /\ last.arg = "pending"
    /\ notif[last.nid].status = "pending"
    /\ notif[last.nid].updated_at = now
    /\ notif[last.nid].created_at < now

\* C2: an update_status call that the table does not allow, a self-transition
\* included, raises and leaves status, retry_count, error_messages, updated_at
\* and the status history as they were.
C2_InvalidTransitionChangesNothing ==
    [][\A n \in NIDs :
         (IsUpdateCall(n) /\ <<notif[n].status, last'.arg>> \notin TransitionTable) =>
           /\ last'.ret = "ValueError"
           /\ notif'[n].status = notif[n].status
           /\ notif'[n].retry_count = notif[n].retry_count
           /\ notif'[n].error_messages = notif[n].error_messages
           /\ notif'[n].updated_at = notif[n].updated_at
           /\ notif'[n].status_history = notif[n].status_history]_vars

\* sent -> sent has been refused, later than the transition to sent
C2_Witness ==
    /\ last.op = "update_status"
    /\ last.ret = "ValueError"
    /\ last.arg = "sent"
    /\ notif[last.nid].status = "sent"
    /\ notif[last.nid].updated_at < now

-----------------------------------------------------------------------------
(* Claims: the priority queues *)

\* the priority order of the specification: Urgent before High before Medium
\* before Low
Rank(prio) ==
    CASE prio = "urgent" -> 4
      [] prio = "high" -> 3
      [] prio = "medium" -> 2
      [] prio = "low" -> 1

\* this step takes the head of the queue of priority p
IsDequeue(p) ==
    /\ queues[p] # <<>>
    /\ queues'[p] = Tail(queues[p])
    /\ \A q \in Priorities \ {p} : queues'[q] = queues[q]

\* C3: the queues are served in strict priority order: the notification
\* dequeued has the highest priority of all that are queued at that time
\* (Low, Urgent, Medium queued: Urgent, then Medium, then Low).
C3_StrictPriorityOrder ==
    [][\A p \in Priorities :
         IsDequeue(p) =>
           \A q \in Priorities : queues[q] # <<>> => Rank(q) <= Rank(p)]_vars

\* C4: whenever the loop is about to dequeue from the queue of priority p,
\* every queue of higher priority is empty.
C4_HigherQueuesEmptyAtDequeue ==
    loop.pc = "run" =>
      \A q \in Priorities :
         Rank(q) > Rank(NotificationPriority[loop.idx]) => queues[q] = <<>>

-----------------------------------------------------------------------------
(* Claims: send_notification *)

\* this step is an attempt of send_notification on n that passed the rate
\* limit check and was handed to the channel
IsAdmitted(n) ==
    /\ deliveries'[n] = deliveries[n] + 1
    /\ last'.op = "send_notification"
    /\ last'.nid = n
    /\ last'.admitted

\* this step is an attempt of send_notification on n that the rate limit
\* check refused
IsDenied(n) ==
    /\ deliveries' = deliveries
    /\ queues' # queues
    /\ last'.op = "send_notification"
    /\ last'.nid = n
    /\ ~last'.admitted

\* attempts admitted for the channel so far; the code never resets a counter
Admitted(c) ==
    LET S == {n \in NIDs : notif[n].created /\ notif[n].notification_type = c}
        sum[T \in SUBSET S] ==
            IF T = {} THEN 0
            ELSE LET x == CHOOSE y \in T : TRUE
                 IN  deliveries[x] + sum[T \ {x}]
    IN  sum[S]

\* C5: the rate limit check admits and increments the channel's counter iff
\* the counter is below the channel's threshold; otherwise it refuses and the
\* counter is unchanged.
C5_CheckIncrementsBelowThreshold ==
    [][\A n \in NIDs :
         LET c == notif[n].notification_type
         IN  /\ IsAdmitted(n) => /\ rate[c] < max_rates(c)
                                 /\ rate'[c] = rate[c] + 1
             /\ IsDenied(n) => /\ rate[c] >= max_rates(c)
                               /\ rate'[c] = rate[c]]_vars

\* C6: a channel with threshold N admits exactly N attempts in a window and
\* refuses the next: the attempts admitted never exceed the threshold and the
\* channel's counter, positive after a burst of sends, is their number.
C6_AdmitsExactlyThreshold ==
    \A c \in NotificationType :
       /\ Admitted(c) <= max_rates(c)
       /\ rate[c] = Admitted(c)

\* C8: a pending notification, admitted, whose channel delivery succeeds:
\* send_notification returns true, the status is sent, retry_count is 0 and
\* the error history is empty, for every channel.
C8_SuccessIsSent ==
    [][\A n \in NIDs :
         (IsAdmitted(n) /\ notif[n].status = "pending" /\ last'.success) =>
           /\ last'.ret = "true"
           /\ notif'[n].status = "sent"
           /\ notif'[n].retry_count = 0
           /\ notif'[n].error_messages = <<>>]_vars

\* C9: a pending notification, admitted, whose channel delivery fails:
\* send_notification returns false, the status is failed, one entry is added
\* to error_messages and retry_count grows by one.
C9_FailureIsRecordedOnce ==
    [][\A n \in NIDs :
         (IsAdmitted(n) /\ notif[n].status = "pending" /\ ~last'.success) =>
           /\ last'.ret = "false"
           /\ notif'[n].status = "failed"
           /\ Len(notif'[n].error_messages) = Len(notif[n].error_messages) + 1
           /\ notif'[n].retry_count = notif[n].retry_count + 1]_vars

\* C10: after a delivery failure the notification is handed to a channel
\* again only when can_retry() holds for it.
C10_NextAttemptOnlyWhenCanRetry ==
    [][\A n \in NIDs :
         (IsAdmitted(n) /\ deliveries[n] >= 1 /\ notif[n].status = "failed") =>
           can_retry(notif[n], now)]_vars

-----------------------------------------------------------------------------
(* Claims: retry *)

\* notification n is in the queue of its own priority
InOwnQueue(n) ==
    \E i \in 1..Len(queues[notif[n].priority]) : queues[notif[n].priority][i] = n

\* C11: a notification whose delivery failed, with retries left and its
\* backoff elapsed (can_retry() holds; the loop has finished with it and
\* sleeps between two runs), eventually is pending again and in the queue of
\* its own priority.
C11_FailedReturnsToQueue ==
    (notif[1].status = "failed" /\ can_retry(notif[1], now) /\ loop.pc = "sleep")
       ~> (notif[1].status = "pending" /\ InOwnQueue(1))

\* the notification has never been in status sent
NeverSent(n) ==
    \A i \in 1..Len(n.status_history) : n.status_history[i] # "sent"

\* this step is the third delivery attempt on n, the first two having failed:
\* the notification was never sent, and the attempt before this one was a
\* delivery on n in which the SMTP server accepted no mail
IsThirdAfterTwoFailures(n) ==
    /\ IsAdmitted(n)
    /\ deliveries[n] = 2
    /\ last.op = "send_notification"
    /\ last.nid = n
    /\ ~last.success
    /\ last.smtp_ok = 0
    /\ NeverSent(notif[n])

\* C12: an Email notification whose delivery fails twice and then succeeds
\* ends in status sent with retry_count 2 and two entries in its error history.
C12_FailTwiceThenSent ==
    [][\A n \in NIDs :
         (IsThirdAfterTwoFailures(n) /\ last'.smtp_ok > 0) =>
           /\ notif'[n].status = "sent"
           /\ notif'[n].retry_count = 2
           /\ Len(notif'[n].error_messages) = 2]_vars

\* C13: a notification whose delivery always fails, the maximum of retry
\* attempts being 3, ends in status failed with retry_count 3, with no further
\* attempt pending and in no queue.
C13_AlwaysFailingEndsExhausted ==
    [][\A n \in NIDs :
         (IsThirdAfterTwoFailures(n) /\ ~last'.success /\ last'.smtp_ok = 0) =>
           /\ notif'[n].status = "failed"
           /\ notif'[n].retry_count = NOTIFICATION_RETRY_ATTEMPTS
           /\ inv'[n].pc = "idle"
           /\ \A p \in Priorities : queues'[p] = <<>>]_vars

-----------------------------------------------------------------------------
(* Claims: can_retry *)

\* this step is a caller's can_retry() call on notification n
IsCanRetryCall(n) ==
    /\ last'.op = "can_retry"
    /\ last'.nid = n
    /\ now' = now
    /\ notif' = notif

\* the time of the latest failure recorded for n, or of its creation when
\* none is recorded
LatestFailure(n) ==
    IF n.error_messages = <<>> THEN n.created_at
    ELSE CHOOSE t \in {n.error_messages[i].timestamp : i \in 1..Len(n.error_messages)} :
           \A i \in 1..Len(n.error_messages) : n.error_messages[i].timestamp <= t

\* C14: can_retry() is true iff the status is failed, retry_count is below
\* the maximum of retry attempts, and the time since the latest recorded
\* failure (since created_at when there is none) is at least
\* base_delay * 2^retry_count.
C14_CanRetryIffEligible ==
    [][\A n \in NIDs :
         IsCanRetryCall(n) =>
           ((last'.ret = "true") <=>
              /\ notif[n].status = "failed"
              /\ notif[n].retry_count < NOTIFICATION_RETRY_ATTEMPTS
              /\ now - LatestFailure(notif[n])
                    >= NOTIFICATION_RETRY_DELAY * 2 ^ notif[n].retry_count)]_vars

\* can_retry() has answered true for a notification that failed twice, at
\* different times
C14_Witness ==
    /\ last.op = "can_retry"
    /\ last.ret = "true"
    /\ notif[last.nid].retry_count = 2
    /\ Len(notif[last.nid].error_messages) = 2
    /\ notif[last.nid].error_messages[1].timestamp
         < notif[last.nid].error_messages[2].timestamp

\* the delays in seconds for retry counts 0..3, with the default base
BackoffTable == <<300, 600, 1200, 2400>>

\* C15: the backoff delay is exactly base * 2^n for n = 0..maximum of retry
\* attempts (300, 600, 1200, 2400 s): it is the value can_retry computes for
\* retry_count n, and a failed notification with retries left becomes
\* eligible exactly when that much time has passed.
C15_BackoffDelayIsExponential ==
    [][\A n \in NIDs :
         (IsCanRetryCall(n) /\ notif[n].retry_count <= NOTIFICATION_RETRY_ATTEMPTS) =>
           /\ current_delay(notif[n].retry_count)
                = BackoffTable[notif[n].retry_count + 1]
           /\ (/\ notif[n].status = "failed"
               /\ notif[n].retry_count < NOTIFICATION_RETRY_ATTEMPTS) =>
                 ((last'.ret = "true") <=>
                    now - LatestFailure(notif[n])
                      >= BackoffTable[notif[n].retry_count + 1])]_vars

\* can_retry() has answered true exactly 600 s after the one failure recorded
C15_Witness ==
    /\ last.op = "can_retry"
    /\ last.ret = "true"
    /\ notif[last.nid].retry_count = 1
    /\ now - LatestFailure(notif[last.nid]) = 600

-----------------------------------------------------------------------------
(* Claims: error tracking *)

\* this step is a successful update_status(status) call on notification n
IsTransition(n, status) ==
    /\ IsUpdateCall(n)
    /\ last'.arg = status
    /\ last'.ret = "none"

\* sequence s is a prefix of sequence t
IsPrefix(s, t) ==
    /\ Len(s) <= Len(t)
    /\ \A i \in 1..Len(s) : s[i] = t[i]

\* C17: every successful transition to failed appends exactly one entry to
\* the error history, with the timestamp and the retry_count before the
\* increment, and increases retry_count by one: no transition to failed takes
\* effect without an error being recorded.
C17_FailedAlwaysRecordsError ==
    [][\A n \in NIDs :
         IsTransition(n, "failed") =>
           /\ notif'[n].status = "failed"
           /\ Len(notif'[n].error_messages) = Len(notif[n].error_messages) + 1
           /\ IsPrefix(notif[n].error_messages, notif'[n].error_messages)
           /\ notif'[n].error_messages[Len(notif'[n].error_messages)].timestamp = now
           /\ notif'[n].error_messages[Len(notif'[n].error_messages)].retry_count
                = notif[n].retry_count
           /\ notif'[n].retry_count = notif[n].retry_count + 1]_vars

\* C18: a successful transition to pending, sent or cancelled leaves
\* retry_count and error_messages unchanged.
C18_OtherTransitionsKeepErrors ==
    [][\A n \in NIDs :
         (\E status \in NotificationStatus \ {"failed"} : IsTransition(n, status)) =>
           /\ notif'[n].retry_count = notif[n].retry_count
           /\ notif'[n].error_messages = notif[n].error_messages]_vars

\* a notification with a recorded failure has been put back to pending
C18_Witness ==
    /\ last.op = "update_status"
    /\ last.ret = "none"
    /\ last.arg = "pending"
    /\ notif[last.nid].status = "pending"
    /\ notif[last.nid].retry_count = 1
    /\ Len(notif[last.nid].error_messages) = 1

\* C19: in every reachable state retry_count is the length of
\* error_messages, after any sequence of update_status calls and send
\* attempts.
C19_RetryCountIsErrorCount ==
    \A n \in NIDs : notif[n].retry_count = Len(notif[n].error_messages)

\* a send attempt has left a notification with two recorded failures
C19_Witness ==
    /\ last.op = "send_notification"
    /\ notif[last.nid].retry_count = 2
    /\ Len(notif[last.nid].error_messages) = 2

\* C20: the error history is append-only: over every step the history before
\* is a prefix of the history after, and retry_count does not decrease.
C20_ErrorHistoryAppendOnly ==
    [][\A n \in NIDs :
         /\ IsPrefix(notif[n].error_messages, notif'[n].error_messages)
         /\ notif'[n].retry_count >= notif[n].retry_count]_vars

\* a notification with two failures recorded at different times is pending
\* again
C20_Witness ==
    /\ notif[1].status = "pending"
    /\ Len(notif[1].error_messages) = 2
    /\ notif[1].error_messages[1].timestamp < notif[1].error_messages[2].timestamp

-----------------------------------------------------------------------------
(* Claims: cancellation, submission, shutdown *)

\* C21: cancelled is terminal: once the status of a notification is
\* cancelled, every later step (update_status, a delivery attempt with the
\* exception handlers of send_email and send_notification, the queue loop)
\* leaves its status cancelled and its retry_count and error history as they
\* were.
C21_CancelledIsTerminal ==
    [][\A n \in NIDs :
         (notif[n].created /\ notif[n].status = "cancelled") =>
           /\ notif'[n].status = "cancelled"
           /\ notif'[n].retry_count = notif[n].retry_count
           /\ notif'[n].error_messages = notif[n].error_messages]_vars

\* a cancelled Email notification has been handed to its channel, the SMTP
\* server accepted the mail, and the exception handlers have run
C21_Witness ==
    /\ last.op = "send_notification"
    /\ last.admitted
    /\ last.smtp_ok > 0
    /\ last.ret \in {"raise", "RetryError"}
    /\ notif[last.nid].status = "cancelled"

\* this step is a put of notification n that starts while the queue of its
\* priority is at capacity
IsPutAtCapacity(n) ==
    /\ inv[n].pc = "idle"
    /\ Len(queues[notif[n].priority]) = maxsize(notif[n].priority)
    /\ last'.op = "put"
    /\ last'.nid = n

\* C22: a put into a priority queue that is at capacity (1000 urgent, 2000
\* high, 5000 medium, 10000 low) fails with QueueFull, leaves the queues as
\* they were and does not suspend the caller.
C22_FullQueueRefuses ==
    [][\A n \in NIDs :
         IsPutAtCapacity(n) =>
           /\ last'.ret = "QueueFull"
           /\ queues' = queues
           /\ inv'[n].pc = "idle"]_vars

\* this step is a step of the create_notification handler in which the
\* request is answered or the handler is suspended; for a request that was
\* accepted, n is its notification
IsHandlerStep(n) ==
    /\ last'.op = "create_notification"
    /\ last'.nid = n
    /\ \/ calls' = calls + 1
       \/ n \in NIDs /\ inv[n].pc = "await" /\ deliveries'[n] = deliveries[n] + 1

\* C23: a submission returns the id of the notification before any delivery
\* attempt for it has completed: the handler only enqueues the notification or
\* defers it, and never waits for the channel delivery.
C23_SubmitReturnsBeforeDelivery ==
    [][\A n \in NIDs :
         IsHandlerStep(n) =>
           /\ last'.ret # "suspended"
           /\ last'.ret \in {"200", "202"} =>
                /\ deliveries'[n] = 0
                /\ \/ inv'[n].pc = "task"
                   \/ \E i \in 1..Len(queues'[notif'[n].priority]) :
                        queues'[notif'[n].priority][i] = n]_vars

\* C24: a notification submitted with scheduled_for in the future is held:
\* no delivery attempt is made for it and it is not taken from a queue before
\* the clock has reached scheduled_for.
C24_ScheduledIsHeld ==
    [][\A n \in NIDs :
         (notif'[n].created /\ notif'[n].scheduled_for # NoSchedule) =>
           /\ deliveries'[n] > deliveries[n] => now >= notif'[n].scheduled_for
           /\ \A p \in Priorities :
                (IsDequeue(p) /\ Head(queues[p]) = n) =>
                  now >= notif'[n].scheduled_for]_vars

\* this step is a request whose scheduled_for is in the past
IsPastRequest ==
    /\ calls' = calls + 1
    /\ last'.op = "create_notification"
    /\ last'.scheduled_for # NoSchedule
    /\ last'.scheduled_for < now

\* C25: a submission whose scheduled_for is in the past is rejected with a
\* validation error; no notification is created for it, nothing is enqueued,
\* no delivery is attempted and no rate limit counter changes.
C25_PastScheduleRejected ==
    [][IsPastRequest =>
         /\ last'.ret = "400"
         /\ last'.nid = 0
         /\ notif' = notif
         /\ queues' = queues
         /\ deliveries' = deliveries
         /\ rate' = rate
         /\ inv' = inv]_vars

\* a request scheduled in the past has been rejected after an earlier request
\* was accepted and delivered
C25_Witness ==
    /\ last.op = "create_notification"
    /\ last.ret = "400"
    /\ last.scheduled_for = NOTIFICATION_RETRY_DELAY
    /\ now > NOTIFICATION_RETRY_DELAY
    /\ notif[1].created
    /\ deliveries[1] > 0

\* the notifications that are in a queue
Queued == {n \in NIDs : notif[n].created /\ InOwnQueue(n)}

\* this step is the shutdown of the service
IsShutdown ==
    /\ last.op \notin {"cleanup", "shutdown"}
    /\ last'.op \in {"cleanup", "shutdown"}

\* the notification the loop is delivering, between two attempts
InFlight == {n \in NIDs : loop.pc = "wait" /\ loop.cur = n}

\* C26: when the service has been shut down, every notification that was
\* still queued is cancelled, no delivery attempt having been made for it, and
\* no notification that the service holds is left pending.
C26_ShutdownCancelsQueued ==
    [][IsShutdown =>
         /\ deliveries' = deliveries
         /\ \A n \in Queued : notif'[n].status = "cancelled"
         /\ \A n \in Queued \cup InFlight : notif'[n].status # "pending"]_vars

-----------------------------------------------------------------------------
(* Claims: faults *)

\* this step is an attempt of the queue loop to deliver notification n that
\* ended with an exception
IsLoopFault(n) ==
    /\ loop.pc \in {"run", "wait"}
    /\ loop' # loop
    /\ inv' = inv
    /\ deliveries'[n] = deliveries[n] + 1
    /\ last'.op = "send_notification"
    /\ last'.nid = n
    /\ last'.ret \in {"raise", "RetryError"}

IsResponse ==
    /\ \E n \in NIDs \cup {0} : IsHandlerStep(n)
    /\ last'.ret # "suspended"

\* C28: a rate limit denial and a delivery failure are not surfaced to the
\* submitter as errors: the only error a request is answered with is the
\* validation error of a scheduled_for in the past (the model has no full
\* queue at a request), and a notification is reported as failed only when its
\* status is failed, never when it was refused by the rate limit and put
\* back pending.
C28_OnlySubmissionErrorsSurface ==
    [][IsResponse =>
         /\ last'.ret \in {"200", "202", "400"}
         /\ last'.ret = "400" =>
              (last'.scheduled_for # NoSchedule /\ last'.scheduled_for < now)
         /\ last'.arg = "failed" =>
              (last'.admitted /\ notif'[last'.nid].status = "failed")]_vars

-----------------------------------------------------------------------------
(* Claims: identity *)

\* C30: the identity of a notification (its slot), its notification_type and
\* its priority are fixed at creation: a notification that exists keeps
\* existing with the same type and priority over every step (update_status,
\* send_notification and its exception handlers, send_email, the puts into
\* the queues and the queue loop).
C30_IdentityIsFixed ==
    [][\A n \in NIDs :
         notif[n].created =>
           /\ notif'[n].created
           /\ notif'[n].notification_type = notif[n].notification_type
           /\ notif'[n].priority = notif[n].priority]_vars

\* a high Email notification has been sent, has failed, and has been
\* through a later send attempt
C30_Witness ==
    /\ last.op = "send_notification"
    /\ notif[last.nid].notification_type = "email"
    /\ notif[last.nid].priority = "high"
    /\ Len(notif[last.nid].status_history) >= 2
    /\ deliveries[last.nid] >= 2

-----------------------------------------------------------------------------
(* Claims: ownership and order *)

\* how many times notification n is in the queue of priority p
Occurrences(n, p) == Cardinality({i \in 1..Len(queues[p]) : queues[p][i] = n})

\* the status of n is terminal: sent, cancelled, or failed with no retry left
IsTerminal(n) ==
    \/ n.status \in {"sent", "cancelled"}
    \/ n.status = "failed" /\ n.retry_count >= NOTIFICATION_RETRY_ATTEMPTS

\* C31: in every reachable state a notification is in at most one priority
\* queue and at most once in it, that queue is the one of its own priority,
\* and a notification whose status is terminal is in no queue.
C31_AtMostOnceInOwnQueue ==
    \A n \in Created :
       /\ \A p \in Priorities :
            Occurrences(n, p) <= IF p = notif[n].priority THEN 1 ELSE 0
       /\ IsTerminal(notif[n]) => \A p \in Priorities : Occurrences(n, p) = 0

\* the send_notification invocations in progress on notification n: the call
\* of a caller or of the request handler, and the call of the queue loop, each
\* suspended between two attempts
Invocations(n) ==
    (IF inv[n].pc \in {"wait", "await"} THEN 1 ELSE 0)
      + (IF loop.pc = "wait" /\ loop.cur = n THEN 1 ELSE 0)

IsLoopTake ==
    /\ loop.pc = "run"
    /\ loop' # loop

\* this step is a caller's put of notification n
IsPut(n) ==
    /\ calls' = calls + 1
    /\ last'.op = "put"
    /\ last'.nid = n

\* C33: within one priority queue the notifications are served first-in
\* first-out: a put adds the notification behind those already queued, and the
\* loop takes the one at the front, hands it to send_notification and leaves
\* the others in their order.
C33_QueueIsFifo ==
    [][/\ \A n \in NIDs :
            IsPut(n) =>
              queues' = [queues EXCEPT ![notif[n].priority] = Append(@, n)]
       /\ IsLoopTake =>
            /\ last'.op = "send_notification"
            /\ last'.nid = Head(queues[NotificationPriority[loop.idx]])
            /\ deliveries'[last'.nid] = deliveries[last'.nid] + 1
            /\ queues' = [queues EXCEPT ![NotificationPriority[loop.idx]] = Tail(@)]]_vars

\* of two notifications of the same priority the second one constructed was
\* served first and the first one is still queued behind it
C33_Witness ==
    /\ notif[1].created
    /\ notif[2].created
    /\ notif[1].priority = notif[2].priority
    /\ last.op = "send_notification"
    /\ last.nid = 2
    /\ deliveries = <<0, 1>>
    /\ queues[notif[1].priority] = <<1>>

-----------------------------------------------------------------------------
(* Claims: the rate limit *)

\* C35: the rate limit is per channel: whether an attempt is admitted is
\* decided by the counter and the threshold of the notification's own
\* channel alone, and neither an admission nor a refusal changes the counter
\* of another channel.
C35_RateLimitIsPerChannel ==
    [][\A n \in NIDs :
         LET c == notif[n].notification_type
         IN  /\ IsAdmitted(n) => rate[c] < max_rates(c)
             /\ IsDenied(n) => rate[c] >= max_rates(c)
             /\ IsAdmitted(n) \/ IsDenied(n) =>
                  \A d \in NotificationType \ {c} : rate'[d] = rate[d]]_vars

\* an attempt was admitted while every other channel's counter is at that
\* channel's threshold
C35_Witness ==
    /\ last.op = "send_notification"
    /\ last.nid = 1
    /\ last.admitted
    /\ deliveries[1] = 1
    /\ \A d \in NotificationType \ {notif[1].notification_type} :
          rate[d] >= max_rates(d)


-----------------------------------------------------------------------------
(* Claims: attempts *)

\* C36: a notification is handed to its channel only while its status is
\* pending: never when it is sent, failed or cancelled, the retry policy's
\* further attempts included.
C36_DeliverOnlyPending ==
    [][\A n \in NIDs :
         deliveries'[n] = deliveries[n] + 1 => notif[n].status = "pending"]_vars


\* this step is a further attempt of the retry policy in a run of
\* send_notification on n
IsRetryAttempt(n) ==
    /\ deliveries'[n] = deliveries[n] + 1
    /\ \/ inv[n].pc = "wait" /\ inv'[n] # inv[n]
       \/ loop.pc = "wait" /\ loop.cur = n /\ loop' # loop

\* C37: over a run of send_notification on an Email notification, the retry
\* policy's attempts included, the SMTP server accepts the mail at most once:
\* a further attempt that follows an attempt of the run in which the mail was
\* accepted does not have it accepted again.
C37_SmtpAtMostOnce ==
    [][\A n \in NIDs :
         (/\ IsRetryAttempt(n)
          /\ last.op = "send_notification"
          /\ last.nid = n
          /\ last.smtp_ok > 0) => last'.smtp_ok = 0]_vars


\* C38: a notification is handed to its channel at most
\* NOTIFICATION_RETRY_ATTEMPTS + 1 times in all, and its retry_count never
\* exceeds NOTIFICATION_RETRY_ATTEMPTS.
C38_AttemptsAreBounded ==
    \A n \in NIDs :
       /\ deliveries[n] <= NOTIFICATION_RETRY_ATTEMPTS + 1
       /\ notif[n].retry_count <= NOTIFICATION_RETRY_ATTEMPTS


-----------------------------------------------------------------------------
(* Claims: the status history *)

\* over this step the status history of n grows at its end by the statuses
\* the notification went through, in order, and by nothing else
HistoryFollows(n) ==
    LET h == notif[n].status_history
        g == notif'[n].status_history
    IN  /\ Len(g) >= Len(h)
        /\ SubSeq(g, 1, Len(h)) = h
        /\ Len(g) = Len(h) => notif'[n].status = notif[n].status
        /\ Len(g) > Len(h) => g[Len(g)] = notif'[n].status
        /\ \A i \in (Len(h) + 1)..Len(g) :
              g[i] \in valid_transitions(IF i = Len(h) + 1 THEN notif[n].status
                                         ELSE g[i - 1])
        /\ IsUpdateCall(n) =>
              g = IF last'.ret = "none" THEN Append(h, last'.arg) ELSE h

\* C39: the status history of the metadata mirrors the transitions: it has one
\* entry per successful update_status call, in call order (none at
\* construction), its last entry is the current status whenever it is not
\* empty, and a refused call adds no entry.
C39_HistoryMirrorsTransitions ==
    [][\A n \in NIDs :
         /\ notif[n].created => HistoryFollows(n)
         /\ ~notif[n].created /\ notif'[n].created =>
               notif'[n].status_history = <<>>
         /\ notif'[n].created /\ notif'[n].status_history # <<>> =>
               notif'[n].status_history[Len(notif'[n].status_history)]
                  = notif'[n].status]_vars

\* C39, amended: from construction on, every successful update_status call
\* appends one entry, the new status, to the status history, in call order,
\* and a refused call adds none; the history starts as the status_history of
\* the metadata the notification was constructed with.
C39_HistoryFollowsTransitions ==
    [][\A n \in NIDs : notif[n].created => HistoryFollows(n)]_vars

\* two successful calls and a refused one on a notification whose metadata
\* carried an entry: the history is that entry and the two statuses, in order
C39_Witness ==
    /\ notif[1].status_history = <<"sent", "failed", "pending">>
    /\ notif[1].status = "pending"
    /\ last.op = "update_status"
    /\ last.nid = 1
    /\ last.ret = "ValueError"

====
